---- MODULE Spec2Model ----
(***************************************************************************)
(* A model of download_acs.py: the ACS tabular fetcher (fetch_table), the  *)
(* TIGERweb geometry fetcher (fetch_blockgroup_geometries) with its        *)
(* identifier repair, and the GeoJSON -> WKT serializer (geojson_to_wkt).  *)
(*                                                                         *)
(* Text that the program slices, pads, filters or assembles character by   *)
(* character (identifier components, variable codes, WKT) is a sequence of *)
(* one-character strings; text that is only passed through or compared     *)
(* (cell values, county codes) is a TLA+ string.                           *)
(***************************************************************************)
EXTENDS Integers, Sequences, FiniteSets, TLC

VARIABLES
    \* fetch_table
    table,          \* index into tables of the table being fetched
    tpc,            \* position of fetch_table
    meta,           \* what the metadata request of get_variables answered
    vars_all,       \* result of get_variables
    ci,             \* index of the county of the outer loop
    var_chunks,     \* chunk(vars_all, 20), as the list the generator yields
    ki,             \* index of the chunk of the inner loop
    attempt,        \* the retry loop's counter
    df_chunks,      \* frames fetched for the current county
    rows,           \* merged frames, one per county
    out,            \* the frame fetch_table returns
    terr,           \* the exception that left fetch_table, "" if none
    trace,          \* HTTP GETs, sleeps and appends of the chunk last attempted
    \* fetch_blockgroup_geometries
    gpc,            \* position of fetch_blockgroup_geometries
    gci,            \* index of the county of the outer loop
    offset,         \* the pagination loop's offset
    page_total,     \* records kept for the current county
    total_kept,     \* records kept in the whole run
    records,        \* the output collection, as runs <<record, count>>
    queries,        \* the queries sent for the county last queried, with their outcome
    gdf,            \* the frame the function returns
    gerr,           \* the exception that left the function, "" if none
    \* one feature through the loop body, and geojson_to_wkt on its geometry
    feat,           \* the feature handled
    fpc,            \* "new" until the loop body has handled feat
    frecs,          \* what the loop body appended for feat
    wpc,            \* "new" until geojson_to_wkt was applied to feat.geometry
    wres,           \* what geojson_to_wkt returned
    \* chunk applied to one list
    clst,           \* the list given to chunk
    cn,             \* the chunk size given to chunk
    cpc,            \* "new" until the generator was run to its end
    cout,           \* the slices the generator yielded, in order
    \* the main block
    mpc,            \* position of the main block
    geom_only,      \* "--geom-only" in sys.argv
    mlog            \* the calls the main block has made, in order

tvars == <<table, tpc, meta, vars_all, ci, var_chunks, ki, attempt, df_chunks, rows,
           out, terr, trace>>
gvars == <<gpc, gci, offset, page_total, total_kept, records, queries, gdf, gerr>>
fvars == <<feat, fpc, frecs, wpc, wres>>
cvars == <<clst, cn, cpc, cout>>
mvars == <<mpc, geom_only, mlog>>
vars  == <<tvars, gvars, fvars, cvars, mvars>>

(***************************************************************************)
(* Bounds of the model.                                                    *)
(***************************************************************************)
NumCounties == 2    \* the first NumCounties entries of arc_counties are used
NumTables   == 2    \* the first NumTables entries of tables are used
NumVars     == 21   \* variables the metadata lists for a table (two chunks)
MaxPages    == 2    \* full pages the TIGERweb server returns per county
MaxPolys    == 2    \* polygons of a MultiPolygon drawn as input
MaxRings    == 2    \* rings of a geometry drawn as input
MaxPts      == 3    \* points of a geometry drawn as input
MaxListLen  == 45   \* length of a list given to chunk
MaxChunk    == 20   \* chunk size given to chunk

(***************************************************************************)
(* Module-level configuration.                                             *)
(***************************************************************************)
arc_counties ==
    << "013","015","035","045","057","063","067","077","085","089",
       "097","113","117","121","135","143","151","159","217","223","247" >>

state == "13"

tables ==
    << [code |-> <<"B","2","5","0","2","4">>, label |-> "UnitsInStructure"],
       [code |-> <<"B","2","5","0","0","3">>, label |-> "Tenure"],
       [code |-> <<"B","2","5","0","0","9">>, label |-> "TenureByHHSize"],
       [code |-> <<"B","1","1","0","1","6">>, label |-> "HouseholdSize"],
       [code |-> <<"B","1","9","0","0","1">>, label |-> "IncomeDist"],
       [code |-> <<"B","0","3","0","0","2">>, label |-> "RaceEthnicity"] >>

Counties == SubSeq(arc_counties, 1, NumCounties)

\* fetch_table: chunk(vars_all, 20), range(5), time.sleep(2)
ChunkSize   == 20
SixAttempts == 5 + 1
MaxAttempts == 5
SleepSecs   == 2

(***************************************************************************)
(* Sequence helpers.                                                       *)
(***************************************************************************)
Range(s) == {s[i] : i \in 1..Len(s)}

RECURSIVE Concat(_)
Concat(ss) == IF ss = <<>> THEN <<>> ELSE Head(ss) \o Concat(Tail(ss))

Min(a, b) == IF a < b THEN a ELSE b

\* s[a:b] of Python for 0 <= a <= b: never out of range, cut at the end of s.
Slice(s, a, b) == SubSeq(s, a + 1, Min(b, Len(s)))

Repeat(x, n) == [i \in 1..n |-> x]

\* The elements of s at the indices idx, in the order of idx.
Pick(s, idx) == [j \in 1..Len(idx) |-> s[idx[j]]]

\* The indices of s whose element is not in the set excluded, ascending.
IndicesNotIn(s, excluded) ==
    SelectSeq([i \in 1..Len(s) |-> i], LAMBDA i : s[i] \notin excluded)

(***************************************************************************)
(* get_variables and chunk.                                                *)
(***************************************************************************)
Digit(d) == <<"0","1","2","3","4","5","6","7","8","9">>[d + 1]

\* A variable code of the ACS metadata: <table>_<nnn>E.
VarCode(code, n) ==
    code \o <<"_", Digit((n \div 100) % 10), Digit((n \div 10) % 10), Digit(n % 10), "E">>

\* str.startswith
StartsWith(s, p) == Len(s) >= Len(p) /\ SubSeq(s, 1, Len(p)) = p

\* A get_variables that returns every key of the payload.
FilterVariablesAll(keys, code) == keys

\* The list comprehension of get_variables over the keys of meta["variables"].
FilterVariables(keys, code) == SelectSeq(keys, LAMBDA v : StartsWith(v, code))

\* A generator whose slices are one element too long.
RECURSIVE chunk_overlapping(_, _)
chunk_overlapping(lst, n) ==
    IF lst = <<>> THEN <<>>
    ELSE <<Slice(lst, 0, n + 1)>> \o chunk_overlapping(Slice(lst, n, Len(lst)), n)

\* chunk(lst, n), as the list of the slices the generator yields.
RECURSIVE chunk(_, _)
chunk(lst, n) ==
    IF lst = <<>> THEN <<>>
    ELSE <<Slice(lst, 0, n)>> \o chunk(Slice(lst, n, Len(lst)), n)

(***************************************************************************)
(* Frames: a frame is its column names and its rows, each row a sequence   *)
(* of cells aligned with the columns (pd.DataFrame(data[1:], data[0])).    *)
(***************************************************************************)
NAME      == <<"N","A","M","E">>
GEOID     == <<"G","E","O","I","D">>
GEO_ID    == <<"G","E","O","_","I","D">>
StateCol  == <<"s","t","a","t","e">>
CountyCol == <<"c","o","u","n","t","y">>
TractCol  == <<"t","r","a","c","t">>
BgCol     == <<"b","l","o","c","k"," ","g","r","o","u","p">>

\* on=["state","county","tract","block group"]
KeyCols == <<StateCol, CountyCol, TractCol, BgCol>>

NaN == "NaN"

NoFrame == [cols |-> <<>>, rows |-> <<>>]

DataFrame(data) == [cols |-> Head(data), rows |-> Tail(data)]

ColIndex(cols, c) == CHOOSE i \in 1..Len(cols) : cols[i] = c

KeyOf(df, row) == [j \in 1..Len(KeyCols) |-> row[ColIndex(df.cols, KeyCols[j])]]

\* df.drop(columns=[c])
DropColumn(df, c) ==
    LET keep == IndicesNotIn(df.cols, {c})
    IN  [cols |-> Pick(df.cols, keep),
         rows |-> [r \in 1..Len(df.rows) |-> Pick(df.rows[r], keep)]]

\* left.merge(right, on=KeyCols, how="inner")
MergeInner(left, right) ==
    LET extra == IndicesNotIn(right.cols, Range(KeyCols))
        Joined(lrow) ==
            LET m == SelectSeq(right.rows,
                               LAMBDA rr : KeyOf(right, rr) = KeyOf(left, lrow))
            IN  [j \in 1..Len(m) |-> lrow \o Pick(m[j], extra)]
    IN  [cols |-> left.cols \o Pick(right.cols, extra),
         rows |-> Concat([i \in 1..Len(left.rows) |-> Joined(left.rows[i])])]

\* left.merge(right, on=KeyCols, how="left"); the frames share no other column.
MergeLeft(left, right) ==
    LET extra == IndicesNotIn(right.cols, Range(KeyCols))
        Joined(lrow) ==
            LET m == SelectSeq(right.rows,
                               LAMBDA rr : KeyOf(right, rr) = KeyOf(left, lrow))
            IN  IF m = <<>>
                THEN << lrow \o Repeat(NaN, Len(extra)) >>
                ELSE [j \in 1..Len(m) |-> lrow \o Pick(m[j], extra)]
    IN  [cols |-> left.cols \o Pick(right.cols, extra),
         rows |-> Concat([i \in 1..Len(left.rows) |-> Joined(left.rows[i])])]

\* The merge loop of fetch_table over df_chunks[1:], starting from df_chunks[0].
RECURSIVE MergeParts(_, _)
MergeParts(df_merged, parts) ==
    IF parts = <<>> THEN df_merged
    ELSE MergeParts(MergeLeft(df_merged, DropColumn(Head(parts), NAME)), Tail(parts))

MergeChunks(chunks) == MergeParts(Head(chunks), Tail(chunks))

\* The columns of the frames, each once, in the order of first appearance.
RECURSIVE UnionCols(_, _)
UnionCols(acc, frames) ==
    IF frames = <<>> THEN acc
    ELSE UnionCols(acc \o SelectSeq(Head(frames).cols, LAMBDA c : c \notin Range(acc)),
                   Tail(frames))

\* pd.concat(frames, ignore_index=True)
ConcatFrames(frames) ==
    LET cols == UnionCols(<<>>, frames)
        Rows(df) ==
            LET at == [j \in 1..Len(cols) |->
                          IF \E i \in 1..Len(df.cols) : df.cols[i] = cols[j]
                          THEN ColIndex(df.cols, cols[j]) ELSE 0]
            IN  [r \in 1..Len(df.rows) |->
                    [j \in 1..Len(cols) |-> IF at[j] = 0 THEN NaN ELSE df.rows[r][at[j]]]]
    IN  [cols |-> cols,
         rows |-> Concat([f \in 1..Len(frames) |-> Rows(frames[f])])]

\* make_geoid: the four key cells of each row, concatenated.
make_geoid(df) ==
    [r \in 1..Len(df.rows) |->
        LET k == KeyOf(df, df.rows[r]) IN k[1] \o k[2] \o k[3] \o k[4]]

\* out["GEOID"] = make_geoid(out), then GEOID, NAME and the key columns first.
WithGeoid(df) ==
    LET g     == make_geoid(df)
        full  == [cols |-> Append(df.cols, GEOID),
                  rows |-> [r \in 1..Len(df.rows) |-> Append(df.rows[r], g[r])]]
        front == <<GEOID, NAME>> \o KeyCols
        cols  == front \o SelectSeq(full.cols, LAMBDA c : c \notin Range(front))
        at    == [j \in 1..Len(cols) |-> ColIndex(full.cols, cols[j])]
    IN  [cols |-> cols,
         rows |-> [r \in 1..Len(full.rows) |-> Pick(full.rows[r], at)]]

(***************************************************************************)
(* The Census API as fetch_table sees it.                                  *)
(***************************************************************************)
\* The keys of meta["variables"], in the order of the payload: n codes of the
\* table, the last of them listed first, among keys of other tables.
MetaKeys(code, n) ==
    <<GEO_ID, VarCode(code, n), NAME>>
        \o [i \in 1..(n - 1) |-> VarCode(code, i)]
        \o <<VarCode(<<"C">> \o Tail(code), 1)>>

\* No metadata request was answered yet.
NoMeta == [kind |-> "none", keys |-> <<>>]

\* What requests.get(url).json() and meta["variables"] may do: the request
\* raises, the body is not JSON, the payload has no "variables", or it has.
MetaResponses(code) ==
    {[kind |-> k, keys |-> <<>>] : k \in {"exception", "notjson", "novariables"}}
        \cup {[kind |-> "ok", keys |-> MetaKeys(code, n)] : n \in {1, NumVars}}

\* The exception a failed metadata request raises in get_variables.
MetaError(kind) ==
    IF kind = "exception" THEN "RequestException"
    ELSE IF kind = "notjson" THEN "JSONDecodeError"
    ELSE "KeyError"

\* The block groups the API knows in a county.
BlockGroups(county) ==
    << [state |-> state, county |-> county, tract |-> "000100", bg |-> "1"],
       [state |-> state, county |-> county, tract |-> "000100", bg |-> "2"] >>

\* The body of a 200 response: the header row, then one row per block group.
ApiData(var_chunk, bgs) ==
    LET header == <<NAME>> \o var_chunk \o KeyCols
        Row(k) == <<"BG " \o k.bg>> \o Repeat("est" \o k.bg, Len(var_chunk))
                      \o <<k.state, k.county, k.tract, k.bg>>
    IN  <<header>> \o [i \in 1..Len(bgs) |-> Row(bgs[i])]

\* The rows a response may carry: all block groups, or only one of them.
RowSets(county) ==
    LET b == BlockGroups(county) IN { b, <<b[1]>>, <<b[2]>> }

\* What requests.get(url, timeout=30) and resp.json() may do.
TableResponses(county, var_chunk) ==
    {[kind |-> k, data |-> <<>>] : k \in {"exception", "status", "notjson", "badshape"}}
        \cup {[kind |-> "table", data |-> ApiData(var_chunk, bgs)] : bgs \in RowSets(county)}

(***************************************************************************)
(* fetch_table.                                                            *)
(***************************************************************************)
Event(ev, secs) == [ev |-> ev, county |-> Counties[ci], chunk |-> ki, secs |-> secs]

\* fetch_table is called with the first or with the last table of the run.
TInit ==
    /\ table \in {1, NumTables}
    /\ tpc = "get_variables"
    /\ meta = NoMeta
    /\ vars_all = <<>>
    /\ ci = 1
    /\ var_chunks = <<>>
    /\ ki = 1
    /\ attempt = 0
    /\ df_chunks = <<>>
    /\ rows = <<>>
    /\ out = NoFrame
    /\ terr = ""
    /\ trace = <<>>

TIdle ==
    /\ table = 1
    /\ tpc = "idle"
    /\ meta = NoMeta
    /\ vars_all = <<>>
    /\ ci = 1
    /\ var_chunks = <<>>
    /\ ki = 1
    /\ attempt = 0
    /\ df_chunks = <<>>
    /\ rows = <<>>
    /\ out = NoFrame
    /\ terr = ""
    /\ trace = <<>>

\* vars_all = get_variables(table): one metadata request, its failure propagates.
GetVariables ==
    /\ tpc = "get_variables"
    /\ \E m \in MetaResponses(tables[table].code) :
          /\ meta' = m
          /\ IF m.kind # "ok"
             THEN /\ tpc' = "raised"
                  /\ terr' = MetaError(m.kind)
                  /\ UNCHANGED vars_all
             ELSE /\ vars_all' = FilterVariables(m.keys, tables[table].code)
                  /\ tpc' = "county"
                  /\ UNCHANGED terr
    /\ UNCHANGED <<table, ci, var_chunks, ki, attempt, df_chunks, rows, out, trace>>
    /\ UNCHANGED <<gvars, fvars, cvars, mvars>>

\* The head of the county loop: df_chunks = [] and the chunk generator.
BeginCounty ==
    /\ tpc = "county"
    /\ df_chunks' = <<>>
    /\ var_chunks' = chunk(vars_all, ChunkSize)
    /\ ki' = 1
    /\ attempt' = 0
    /\ tpc' = IF var_chunks' = <<>> THEN "merge" ELSE "attempt"
    /\ UNCHANGED <<table, meta, vars_all, ci, rows, out, terr, trace>>
    /\ UNCHANGED <<gvars, fvars, cvars, mvars>>

\* Leaving the retry loop: the next chunk, or the merge after the last one.
LeaveChunk ==
    /\ attempt' = 0
    /\ IF ki < Len(var_chunks)
       THEN ki' = ki + 1 /\ tpc' = "attempt"
       ELSE ki' = ki /\ tpc' = "merge"

\* One pass of the retry loop up to its break, continue or except clause.
Attempt ==
    /\ tpc = "attempt"
    /\ \E resp \in TableResponses(Counties[ci], var_chunks[ki]) :
          LET same  == trace # <<>> /\ trace[1].county = Counties[ci] /\ trace[1].chunk = ki
              sofar == (IF same THEN trace ELSE <<>>) \o <<Event("GET", 0)>>
          IN  IF resp.kind = "table"
              THEN /\ df_chunks' = Append(df_chunks, DataFrame(resp.data))
                   /\ trace' = sofar \o <<Event("APPEND", 0)>>
                   /\ LeaveChunk
              ELSE /\ trace' = sofar
                   /\ tpc' = "sleep"
                   /\ UNCHANGED <<df_chunks, ki, attempt>>
    /\ UNCHANGED <<table, meta, vars_all, ci, var_chunks, rows, out, terr>>
    /\ UNCHANGED <<gvars, fvars, cvars, mvars>>

\* time.sleep(2) after a failed attempt, then the next attempt if one is left.
Sleep ==
    /\ tpc = "sleep"
    /\ trace' = trace \o <<Event("SLEEP", SleepSecs)>>
    /\ IF attempt + 1 < MaxAttempts
       THEN attempt' = attempt + 1 /\ tpc' = "attempt" /\ UNCHANGED ki
       ELSE LeaveChunk
    /\ UNCHANGED <<table, meta, vars_all, ci, var_chunks, df_chunks, rows, out, terr>>
    /\ UNCHANGED <<gvars, fvars, cvars, mvars>>

\* df_merged = df_chunks[0], the merge loop, rows.append(df_merged).
Merge ==
    /\ tpc = "merge"
    /\ IF df_chunks = <<>>
       THEN /\ tpc' = "raised"
            /\ terr' = "IndexError"
            /\ UNCHANGED <<rows, ci>>
       ELSE /\ rows' = Append(rows, MergeChunks(df_chunks))
            /\ IF ci < Len(Counties)
               THEN ci' = ci + 1 /\ tpc' = "county"
               ELSE ci' = ci /\ tpc' = "concat"
            /\ UNCHANGED terr
    /\ UNCHANGED <<table, meta, vars_all, var_chunks, ki, attempt, df_chunks, out, trace>>
    /\ UNCHANGED <<gvars, fvars, cvars, mvars>>

\* out = pd.concat(rows), the GEOID column, the column order, return.
Return ==
    /\ tpc = "concat"
    /\ out' = WithGeoid(ConcatFrames(rows))
    /\ tpc' = "returned"
    /\ UNCHANGED <<table, meta, vars_all, ci, var_chunks, ki, attempt, df_chunks, rows, terr, trace>>
    /\ UNCHANGED <<gvars, fvars, cvars, mvars>>

TNext == GetVariables \/ BeginCounty \/ Attempt \/ Sleep \/ Merge \/ Return

(***************************************************************************)
(* geojson_to_wkt.  A geometry is [present, type, coordinates]: present is *)
(* FALSE for a missing geometry (None or {}), type is "" when the key is   *)
(* missing, coordinates is <<>> when the key is missing or null.  A point  *)
(* is a sequence of integers.                                              *)
(***************************************************************************)
\* Python's None where a text is expected: no sequence of characters equals it.
None == <<"None">>

\* str(n) for an integer n
RECURSIVE NatToChars(_)
NatToChars(n) == IF n < 10 THEN <<Digit(n)>> ELSE Append(NatToChars(n \div 10), Digit(n % 10))

IntToChars(n) == IF n < 0 THEN <<"-">> \o NatToChars(0 - n) ELSE NatToChars(n)

\* sep.join(parts)
RECURSIVE Join(_, _)
Join(parts, sep) ==
    IF parts = <<>> THEN <<>>
    ELSE IF Len(parts) = 1 THEN Head(parts)
    ELSE Head(parts) \o sep \o Join(Tail(parts), sep)

CommaSpace == <<",", " ">>

\* xy_tuple returning (pt[1], pt[0])
xy_tuple_swapped(pt) == IF Len(pt) >= 2 THEN <<pt[2], pt[1]>> ELSE <<>>

\* xy_tuple: (pt[0], pt[1]), or <<>> for the None of its except clause.
xy_tuple(pt) == IF Len(pt) >= 2 THEN <<pt[1], pt[2]>> ELSE <<>>

\* The loop over one ring: pts, and the "(...)" text unless pts is empty.
RingPts(ring) ==
    LET valid == SelectSeq(ring, LAMBDA pt : xy_tuple(pt) # <<>>)
    IN  [i \in 1..Len(valid) |->
            IntToChars(xy_tuple(valid[i])[1]) \o <<" ">> \o IntToChars(xy_tuple(valid[i])[2])]

\* The loop over the rings without its "if not pts: continue".
RingTextsKeepEmpty(poly) ==
    [i \in 1..Len(poly) |-> <<"(">> \o Join(RingPts(poly[i]), CommaSpace) \o <<")">>]

\* The loop over the rings of one polygon: the texts of the rings kept.
RingTexts(poly) ==
    LET kept == SelectSeq(poly, LAMBDA ring : RingPts(ring) # <<>>)
    IN  [i \in 1..Len(kept) |-> <<"(">> \o Join(RingPts(kept[i]), CommaSpace) \o <<")">>]

\* The loop over the polygons of a MultiPolygon: the texts of the polygons kept.
PolyTexts(coords) ==
    LET kept == SelectSeq(coords, LAMBDA poly : RingTexts(poly) # <<>>)
    IN  [i \in 1..Len(kept) |-> <<"(">> \o Join(RingTexts(kept[i]), CommaSpace) \o <<")">>]

geojson_to_wkt(geom) ==
    IF ~geom.present THEN None
    ELSE IF geom.type = "Polygon"
    THEN LET rings == RingTexts(geom.coordinates)
         IN  IF rings # <<>>
             THEN <<"P","O","L","Y","G","O","N","(">> \o Join(rings, CommaSpace) \o <<")">>
             ELSE None
    ELSE IF geom.type = "MultiPolygon"
    THEN LET polys == PolyTexts(geom.coordinates)
         IN  IF polys # <<>>
             THEN <<"M","U","L","T","I","P","O","L","Y","G","O","N","(">>
                      \o Join(polys, CommaSpace) \o <<")">>
             ELSE None
    ELSE None

(***************************************************************************)
(* The loop body of fetch_blockgroup_geometries over one feature.  The     *)
(* properties are a record of texts under the lower-case names of their   *)
(* keys, <<>> for a key that is missing, null or empty (props.get(k) or    *)
(* ""); a record of the output has its keys in lower case too.             *)
(***************************************************************************)
IsDigit(ch) == ch \in {"0","1","2","3","4","5","6","7","8","9"}

\* digits(s) of the loop body
digits(s) == SelectSeq(s, IsDigit)

\* str.strip
RECURSIVE LStrip(_)
LStrip(s) == IF s # <<>> /\ Head(s) = " " THEN LStrip(Tail(s)) ELSE s

RECURSIVE RStrip(_)
RStrip(s) == IF s # <<>> /\ s[Len(s)] = " " THEN RStrip(SubSeq(s, 1, Len(s) - 1)) ELSE s

Strip(s) == RStrip(LStrip(s))

\* str.zfill on a text of digits
zfill(s, w) == IF Len(s) >= w THEN s ELSE Repeat("0", w - Len(s)) \o s

\* a or b
Or(a, b) == IF a # <<>> THEN a ELSE b

\* str(GEOID or GEOID10 or BG_GEOID or "").strip()
SuppliedGeoid(props) == Strip(Or(props.geoid, Or(props.geoid10, props.bg_geoid)))

\* The components after the normalisation of lines 185-210.
Normalized(props) ==
    LET st == Strip(props.state)
        co == Strip(props.county)
        tr == Strip(props.tract)
        bg == Strip(props.block_group)
    IN  [st |-> IF digits(st) # <<>> THEN zfill(digits(st), 2) ELSE st,
         co |-> IF digits(co) # <<>> THEN zfill(digits(co), 3) ELSE co,
         tr |-> IF digits(tr) # <<>> THEN zfill(digits(tr), 6) ELSE tr,
         bg |-> IF digits(bg) # <<>> THEN Slice(digits(bg), 0, 1) ELSE bg]

\* The slicing branch entered for a GEOID of eleven digits already.
SlicesFromEleven(props) ==
    LET geoid == Strip(Or(props.geoid, Or(props.geoid10, props.bg_geoid)))
    IN  geoid # <<>> /\ Len(SelectSeq(geoid, IsDigit)) >= 11

\* Whether the slicing branch of lines 213-219 is entered.
Slices(props) ==
    LET n == Normalized(props)
        geoid == SuppliedGeoid(props)
    IN  /\ (n.st = <<>> \/ n.co = <<>> \/ n.tr = <<>> \/ n.bg = <<>>)
        /\ geoid # <<>>
        /\ Len(digits(geoid)) >= 12

\* The repair with the tract and block group slices one place too far left.
RepairedShifted(props) ==
    LET n == Normalized(props)
        g == digits(SuppliedGeoid(props))
    IN  IF Slices(props)
        THEN [st |-> Or(n.st, Slice(g, 0, 2)),
              co |-> Or(n.co, Slice(g, 2, 5)),
              tr |-> Or(n.tr, Slice(g, 4, 10)),
              bg |-> Or(n.bg, Slice(g, 10, 11))]
        ELSE n

\* The repair with the slices of the GEOID taken before the feature's own
\* components.
RepairedOverwriting(props) ==
    LET n == Normalized(props)
        g == digits(SuppliedGeoid(props))
    IN  IF Slices(props)
        THEN [st |-> Or(Slice(g, 0, 2), n.st),
              co |-> Or(Slice(g, 2, 5), n.co),
              tr |-> Or(Slice(g, 5, 11), n.tr),
              bg |-> Or(Slice(g, 11, 12), n.bg)]
        ELSE n

\* The components after lines 212-219.
Repaired(props) ==
    LET n == Normalized(props)
        g == digits(SuppliedGeoid(props))
    IN  IF Slices(props)
        THEN [st |-> Or(n.st, Slice(g, 0, 2)),
              co |-> Or(n.co, Slice(g, 2, 5)),
              tr |-> Or(n.tr, Slice(g, 5, 11)),
              bg |-> Or(n.bg, Slice(g, 11, 12))]
        ELSE n

\* The final validation of lines 221-225.
Validated(c) ==
    /\ c.st # <<>> /\ c.co # <<>> /\ c.tr # <<>> /\ c.bg # <<>>
    /\ Len(c.st) = 2 /\ Len(c.co) = 3 /\ Len(c.tr) = 6 /\ Len(c.bg) = 1

\* The geometry tests of lines 170-175: a polygonal geometry with a WKT.
GeometryKept(geom) ==
    /\ geom.present
    /\ geom.type \in {"Polygon", "MultiPolygon"}
    /\ geojson_to_wkt(geom) # None
    /\ geojson_to_wkt(geom) # <<>>

\* What the loop body appends to records for one feature: one record or none.
FeatureRecords(f) ==
    LET c == Repaired(f.properties)
        geoid == SuppliedGeoid(f.properties)
    IN  IF GeometryKept(f.geometry) /\ Validated(c)
        THEN << [geoid       |-> IF geoid = <<>> THEN c.st \o c.co \o c.tr \o c.bg ELSE geoid,
                 state       |-> c.st,
                 county      |-> c.co,
                 tract       |-> c.tr,
                 block_group |-> c.bg,
                 wkt         |-> geojson_to_wkt(f.geometry)] >>
        ELSE <<>>

(***************************************************************************)
(* The features drawn as input.                                            *)
(***************************************************************************)
Geom(type, coords) == [present |-> TRUE, type |-> type, coordinates |-> coords]

\* feat.get("geometry") is None or {}
NoGeometry == [present |-> FALSE, type |-> "", coordinates |-> <<>>]

Props(geoid, geoid10, bg_geoid, st, co, tr, bg) ==
    [geoid |-> geoid, geoid10 |-> geoid10, bg_geoid |-> bg_geoid,
     state |-> st, county |-> co, tract |-> tr, block_group |-> bg]

\* [x, y] with a negative and a two-digit number, [x, y, z], and a point too short.
PtSet == { <<-1, 10>>, <<2, 0, 5>>, <<7>> }

RingsUpTo(n) == UNION {[1..k -> PtSet] : k \in 0..n}

RECURSIVE NumPts(_)
NumPts(poly) == IF poly = <<>> THEN 0 ELSE Len(Head(poly)) + NumPts(Tail(poly))

\* Polygon coordinates of at most r rings and p points.
RECURSIVE PolyCoords(_, _)
PolyCoords(r, p) ==
    IF r = 0 THEN {<<>>}
    ELSE {<<>>} \cup UNION { { <<ring>> \o rest : rest \in PolyCoords(r - 1, p - Len(ring)) }
                               : ring \in RingsUpTo(p) }

\* MultiPolygon coordinates of at most k polygons, r rings and p points.
RECURSIVE MultiCoords(_, _, _)
MultiCoords(k, r, p) ==
    IF k = 0 THEN {<<>>}
    ELSE {<<>>} \cup UNION { { <<poly>> \o rest
                                  : rest \in MultiCoords(k - 1, r - Len(poly), p - NumPts(poly)) }
                               : poly \in PolyCoords(r, p) }

\* The ring of section 8 of the specification.
UnitRing == << <<0, 0>>, <<0, 1>>, <<1, 1>>, <<0, 0>> >>

\* The geometries of at most k polygons, r rings and p points, of every type.
GeomInputs(k, r, p) ==
    {NoGeometry, Geom("Point", <<>>), Geom("LineString", <<>>), Geom("", <<>>)}
        \cup {Geom("Polygon", c) : c \in PolyCoords(r, p)}
        \cup {Geom("MultiPolygon", c) : c \in MultiCoords(k, r, p)}
        \cup {Geom("Polygon", <<UnitRing>>),
              Geom("MultiPolygon", << <<UnitRing>>, << <<UnitRing[2], UnitRing[3]>> >> >>)}

UnitSquare == Geom("Polygon", <<UnitRing>>)

\* The texts a STATE, COUNTY, TRACT, BLOCK_GROUP and GEOID property may hold.
StateVals  == { <<>>, <<"1">>, <<"1","3">>, <<"1","3","0">>, <<"G","A">>,
                <<" ","1","3"," ">>, <<"1","A">> }
CountyVals == { <<>>, <<"2","1">>, <<"1","2","1">>, <<"A","B","C">> }
TractVals  == { <<>>, <<"1","0","0">>, <<"0","0","0","1","0","0">>,
                <<"0","0","0","1",".","0","0">>, <<"A","B","C","D","E","F">> }
BgVals     == { <<>>, <<"1">>, <<"1","2">>, <<"A">> }
GeoidVals  ==
    { <<>>, <<" ">>,
      <<"1","3","0","2","1","0","0","0","1","0","0","2">>,
      <<"1","3","0","2","1","0","0","0","1","0","0">>,
      <<"1","3","-","0","2","1","-","0","0","0","1","0","0","-","2">>,
      <<"1","3","0","2","1","0","0","0","1","0","0","2","0","0","7">> }

\* All texts of n characters over the digits 0 and 1.
BinDigits(n) == [1..n -> {"0", "1"}]

\* Features that carry a GEOID of twelve digits, under one of its three keys,
\* and no component.
GeoidOnlyFeatures ==
    { [properties |-> Props(g, <<>>, <<>>, <<>>, <<>>, <<>>, <<>>), geometry |-> UnitSquare]
        : g \in BinDigits(12) }
    \cup
    { [properties |-> Props(<<>>, g, <<>>, <<>>, <<>>, <<>>, <<>>), geometry |-> UnitSquare]
        : g \in {Repeat("1", 12)} }
    \cup
    { [properties |-> Props(<<>>, <<>>, g, <<>>, <<>>, <<>>, <<>>), geometry |-> UnitSquare]
        : g \in {Repeat("1", 12)} }

PropFeatures ==
    { [properties |-> Props(g, <<>>, <<>>, st, co, tr, bg), geometry |-> UnitSquare]
        : g \in GeoidVals, st \in StateVals, co \in CountyVals, tr \in TractVals,
          bg \in BgVals }

GoodProps ==
    Props(<<>>, <<>>, <<>>, <<"1","3">>, <<"1","2","1">>, <<"0","0","0","1","0","0">>, <<"1">>)

GeomFeatures(k, r, p) ==
    { [properties |-> GoodProps, geometry |-> g] : g \in GeomInputs(k, r, p) }

FeatureInputs(k, r, p) == GeoidOnlyFeatures \cup PropFeatures \cup GeomFeatures(k, r, p)

(***************************************************************************)
(* One feature through the loop body, and geojson_to_wkt on its geometry.  *)
(***************************************************************************)
FInit ==
    /\ feat \in FeatureInputs(MaxPolys, MaxRings, MaxPts)
    /\ fpc = "new"
    /\ frecs = <<>>
    /\ wpc = "new"
    /\ wres = None

FIdle ==
    /\ feat = [properties |-> GoodProps, geometry |-> UnitSquare]
    /\ fpc = "idle"
    /\ frecs = <<>>
    /\ wpc = "idle"
    /\ wres = None

\* wkt = geojson_to_wkt(geom)
ConvertGeometry ==
    /\ wpc = "new"
    /\ wres' = geojson_to_wkt(feat.geometry)
    /\ wpc' = "converted"
    /\ UNCHANGED <<feat, fpc, frecs>>
    /\ UNCHANGED <<tvars, gvars, cvars, mvars>>

\* One pass of the loop "for feat in feats".
HandleFeature ==
    /\ fpc = "new"
    /\ wpc = "converted"
    /\ frecs' = frecs \o FeatureRecords(feat)
    /\ fpc' = "handled"
    /\ UNCHANGED <<feat, wpc, wres>>
    /\ UNCHANGED <<tvars, gvars, cvars, mvars>>

FNext == ConvertGeometry \/ HandleFeature

(***************************************************************************)
(* fetch_blockgroup_geometries.  A page of features and the output         *)
(* collection are sequences of runs <<x, n>>: n consecutive copies of x.   *)
(***************************************************************************)
\* params["resultRecordCount"]
PageSize == 2000

GoodFeature  == [properties |-> GoodProps, geometry |-> UnitSquare]
PointFeature == [properties |-> GoodProps, geometry |-> Geom("Point", <<>>)]

RECURSIVE RunTotal(_)
RunTotal(runs) == IF runs = <<>> THEN 0 ELSE Head(runs)[2] + RunTotal(Tail(runs))

\* The pages the server may return: empty, a single feature that is dropped,
\* one short of a full page, a full page, and one more than asked for; the
\* last two only while full is TRUE.
Pages(full) ==
    { <<>>, << <<PointFeature, 1>> >>,
      << <<PointFeature, 1>>, <<GoodFeature, PageSize - 2>> >> }
        \cup IF full
             THEN { << <<GoodFeature, PageSize>> >>,
                    << <<GoodFeature, PageSize>>, <<PointFeature, 1>> >> }
             ELSE {}

\* What requests.get(base, params, timeout=60) and resp.json() may do: the
\* request raises, a status other than 200, a body that is not JSON, a payload
\* with an error object, JSON that is no object (an array), a feature collection.
GeomResponses(full) ==
    {[kind |-> k, features |-> <<>>]
        : k \in {"exception", "status", "notjson", "error", "notobject"}}
        \cup {[kind |-> "collection", features |-> p] : p \in Pages(full)}

\* The loop "for feat in feats" over a page: the runs appended to records.
RECURSIVE KeptRuns(_)
KeptRuns(feats) ==
    IF feats = <<>> THEN <<>>
    ELSE LET recs == FeatureRecords(Head(feats)[1])
         IN  (IF recs = <<>> THEN <<>> ELSE << <<recs[1], Head(feats)[2]>> >>)
                 \o KeptRuns(Tail(feats))

FrameCols == <<GEOID, StateCol, CountyCol, TractCol, BgCol, <<"w","k","t">> >>

GInit ==
    /\ gpc = "query"
    /\ gci = 1
    /\ offset = 0
    /\ page_total = 0
    /\ total_kept = 0
    /\ records = <<>>
    /\ queries = <<>>
    /\ gdf = NoFrame
    /\ gerr = ""

GIdle ==
    /\ gpc = "idle"
    /\ gci = 1
    /\ offset = 0
    /\ page_total = 0
    /\ total_kept = 0
    /\ records = <<>>
    /\ queries = <<>>
    /\ gdf = NoFrame
    /\ gerr = ""

\* offset += got
NextOffsetFixedStep(off, got) == off + PageSize

NextOffset(off, got) == off + got

\* A loop that takes no page for the last one.
LastPageNever(got) == FALSE

\* if got < params["resultRecordCount"]: break
LastPage(got) == got < PageSize

\* A loop body that keeps only the records of the page at hand.
Overwritten(recs, kept) == kept

\* records.append(...) for the features of a page that are kept
Extended(recs, kept) == recs \o kept

\* The pagination loop is left: the next county, or the frame after the last.
LeaveCounty ==
    /\ offset' = 0
    /\ page_total' = 0
    /\ IF gci < Len(Counties)
       THEN gci' = gci + 1 /\ gpc' = "query"
       ELSE gci' = gci /\ gpc' = "frame"

\* One pass of the pagination loop: the query, its response, the features.
Page ==
    /\ gpc = "query"
    /\ \E resp \in GeomResponses(offset < MaxPages * PageSize) :
          LET got  == RunTotal(resp.features)
              kept == KeptRuns(resp.features)
              sent == [county            |-> Counties[gci],
                       resultOffset      |-> offset,
                       resultRecordCount |-> PageSize,
                       outcome           |-> resp.kind,
                       features          |-> resp.features,
                       got               |-> got]
          IN  /\ queries' = (IF queries # <<>> /\ queries[1].county = Counties[gci]
                              THEN queries ELSE <<>>) \o <<sent>>
              /\ IF resp.kind = "notobject"
                 THEN /\ gpc' = "raised"
                      /\ gerr' = "AttributeError"
                      /\ UNCHANGED <<gci, offset, page_total, total_kept, records>>
                 ELSE IF resp.kind # "collection" \/ got = 0
                 THEN /\ LeaveCounty
                      /\ UNCHANGED <<total_kept, records, gerr>>
                 ELSE /\ records' = Extended(records, kept)
                      /\ total_kept' = total_kept + RunTotal(kept)
                      /\ IF LastPage(got)
                         THEN LeaveCounty
                         ELSE /\ offset' = NextOffset(offset, got)
                              /\ page_total' = page_total + RunTotal(kept)
                              /\ UNCHANGED <<gci, gpc>>
                      /\ UNCHANGED gerr
    /\ UNCHANGED gdf
    /\ UNCHANGED <<tvars, fvars, cvars, mvars>>

\* gdf = pd.DataFrame.from_records(records), the renamed columns, return.
ReturnFrame ==
    /\ gpc = "frame"
    /\ gdf' = [cols |-> FrameCols, rows |-> records]
    /\ gpc' = "returned"
    /\ UNCHANGED <<gci, offset, page_total, total_kept, records, queries, gerr>>
    /\ UNCHANGED <<tvars, fvars, cvars, mvars>>

GNext == Page \/ ReturnFrame

(***************************************************************************)
(* The main block.  mlog lists the calls it makes; the requests of a call  *)
(* are the steps of fetch_table and fetch_blockgroup_geometries.           *)
(***************************************************************************)
Call(f, arg) == [call |-> f, arg |-> arg]

\* f"ARC_{label}_2023_BG.csv"
TableCsv(t) == "ARC_" \o tables[t].label \o "_2023_BG.csv"

GeomCsv == "ARC_BG_Geometries_2023.csv"

MInit ==
    /\ mpc = "start"
    /\ geom_only \in BOOLEAN
    /\ mlog = <<>>

MIdle ==
    /\ mpc = "idle"
    /\ geom_only = FALSE
    /\ mlog = <<>>

\* df = fetch_table(table): the function starts with fresh locals.
CallFetchTable(t) ==
    /\ table' = t
    /\ tpc' = "get_variables"
    /\ meta' = NoMeta
    /\ vars_all' = <<>>
    /\ ci' = 1
    /\ var_chunks' = <<>>
    /\ ki' = 1
    /\ attempt' = 0
    /\ df_chunks' = <<>>
    /\ rows' = <<>>
    /\ out' = NoFrame
    /\ terr' = ""
    /\ trace' = <<>>

\* After the loop over the tables nothing of fetch_table is read again.
LeaveFetchTable ==
    /\ table' = 1
    /\ tpc' = "idle"
    /\ meta' = NoMeta
    /\ vars_all' = <<>>
    /\ ci' = 1
    /\ var_chunks' = <<>>
    /\ ki' = 1
    /\ attempt' = 0
    /\ df_chunks' = <<>>
    /\ rows' = <<>>
    /\ out' = NoFrame
    /\ terr' = ""
    /\ trace' = <<>>

\* geom_df = fetch_blockgroup_geometries()
CallFetchGeometries ==
    /\ gpc' = "query"
    /\ gci' = 1
    /\ offset' = 0
    /\ page_total' = 0
    /\ total_kept' = 0
    /\ records' = <<>>
    /\ queries' = <<>>
    /\ gdf' = NoFrame
    /\ gerr' = ""

\* A main block that ignores the flag.
TablesAlways == TRUE

\* if not geom_only:
TablesWanted == ~geom_only

\* geom_only = "--geom-only" in sys.argv, then the first call of the run.
ParseArgs ==
    /\ mpc = "start"
    /\ IF TablesWanted /\ NumTables > 0
       THEN /\ mpc' = "tables"
            /\ CallFetchTable(1)
            /\ mlog' = <<Call("fetch_table", tables[1].label)>>
            /\ UNCHANGED gvars
       ELSE /\ mpc' = "geometries"
            /\ CallFetchGeometries
            /\ mlog' = <<Call("fetch_blockgroup_geometries", "")>>
            /\ UNCHANGED tvars
    /\ UNCHANGED geom_only
    /\ UNCHANGED <<fvars, cvars>>

\* save_csv(df, ...) after fetch_table returned, then the next table or stage 2.
SaveTable ==
    /\ mpc = "tables"
    /\ tpc = "returned"
    /\ IF table < NumTables
       THEN /\ CallFetchTable(table + 1)
            /\ mlog' = mlog \o <<Call("save_csv", TableCsv(table)),
                                 Call("fetch_table", tables[table + 1].label)>>
            /\ UNCHANGED <<mpc, gvars>>
       ELSE /\ mpc' = "geometries"
            /\ LeaveFetchTable
            /\ CallFetchGeometries
            /\ mlog' = mlog \o <<Call("save_csv", TableCsv(table)),
                                 Call("fetch_blockgroup_geometries", "")>>
    /\ UNCHANGED geom_only
    /\ UNCHANGED <<fvars, cvars>>

\* An exception that leaves fetch_table or fetch_blockgroup_geometries is
\* caught nowhere: the run ends with a traceback.
Uncaught ==
    /\ \/ mpc = "tables" /\ tpc = "raised"
       \/ mpc = "geometries" /\ gpc = "raised"
    /\ mpc' = "failed"
    /\ UNCHANGED <<geom_only, mlog>>
    /\ UNCHANGED <<tvars, gvars, fvars, cvars>>

\* save_csv(geom_df, "ARC_BG_Geometries_2023.csv")
SaveGeometries ==
    /\ mpc = "geometries"
    /\ gpc = "returned"
    /\ mlog' = Append(mlog, Call("save_csv", GeomCsv))
    /\ mpc' = "instructions"
    /\ UNCHANGED geom_only
    /\ UNCHANGED <<tvars, gvars, fvars, cvars>>

\* to_postgis_instructions(...), print("Done.")
Instructions ==
    /\ mpc = "instructions"
    /\ mlog' = Append(mlog, Call("to_postgis_instructions", "public"))
    /\ mpc' = "done"
    /\ UNCHANGED geom_only
    /\ UNCHANGED <<tvars, gvars, fvars, cvars>>

MNext ==
    \/ ParseArgs
    \/ GetVariables \/ BeginCounty \/ Attempt \/ Sleep \/ Merge \/ Return
    \/ SaveTable
    \/ Page \/ ReturnFrame
    \/ SaveGeometries
    \/ Instructions
    \/ Uncaught

(***************************************************************************)
(* chunk on one list: list(chunk(clst, cn)).                               *)
(***************************************************************************)
\* The lists 1, 2, ..., L: their elements are distinct.
ListInputs == { [i \in 1..L |-> i] : L \in 0..MaxListLen }

CInit ==
    /\ clst \in ListInputs
    /\ cn \in 1..MaxChunk
    /\ cpc = "new"
    /\ cout = <<>>

CIdle ==
    /\ clst = <<>>
    /\ cn = 1
    /\ cpc = "idle"
    /\ cout = <<>>

\* The generator run to its end.
RunChunk ==
    /\ cpc = "new"
    /\ cout' = chunk(clst, cn)
    /\ cpc' = "done"
    /\ UNCHANGED <<clst, cn>>
    /\ UNCHANGED <<tvars, gvars, fvars, mvars>>

CNext == RunChunk

(***************************************************************************)
(* Specifications.                                                         *)
(***************************************************************************)
\* fetch_table alone
InitTable == TInit /\ GIdle /\ FIdle /\ CIdle /\ MIdle

SpecTable == InitTable /\ [][TNext]_vars

\* fetch_blockgroup_geometries alone
InitGeom == TIdle /\ GInit /\ FIdle /\ CIdle /\ MIdle

SpecGeom == InitGeom /\ [][GNext]_vars

\* fetch_blockgroup_geometries as the interpreter runs it: one thread that
\* takes its next step whenever there is one (each request has a timeout)
SpecGeomLive == SpecGeom /\ WF_vars(GNext)

\* the loop body and the serializer on one drawn feature
InitFeature == TIdle /\ GIdle /\ FInit /\ CIdle /\ MIdle

SpecFeature == InitFeature /\ [][FNext]_vars

\* the whole run: the main block and the functions it calls
InitMain == TIdle /\ GIdle /\ FIdle /\ CIdle /\ MInit

SpecMain == InitMain /\ [][MNext]_vars

\* chunk alone
InitChunk == TIdle /\ GIdle /\ FIdle /\ CInit /\ MIdle

SpecChunk == InitChunk /\ [][CNext]_vars

(***************************************************************************)
(* fetch_table: the retry loop and the merge (C1 - C3).                    *)
(***************************************************************************)
Last(s) == s[Len(s)]

Gets(tr) == Len(SelectSeq(tr, LAMBDA e : e.ev = "GET"))

\* The chunk of trace is over: fetched, or given up after the last sleep.
ChunkOver == trace # <<>> /\ (Last(trace).ev = "APPEND" \/ (Last(trace).ev = "SLEEP" /\ Gets(trace) = 5))

C1_TraceShape ==
    /\ Gets(trace) <= 5
    /\ \A i \in 1..Len(trace) :
          /\ trace[i].county = trace[1].county /\ trace[i].chunk = trace[1].chunk
          /\ (i % 2 = 1) => trace[i].ev = "GET"
          /\ (i % 2 = 0) => \/ trace[i].ev = "SLEEP" /\ trace[i].secs = 2
                            \/ trace[i].ev = "APPEND" /\ i = Len(trace)
    \* a failed attempt waits for its sleep; a sleep before the fifth failure is
    \* followed by the next attempt at the same chunk
    /\ (trace # <<>> /\ Last(trace).ev = "GET") => tpc = "sleep"
    /\ (trace # <<>> /\ Last(trace).ev = "SLEEP" /\ Gets(trace) < 5)
          => tpc = "attempt" /\ Counties[ci] = trace[1].county /\ ki = trace[1].chunk
    \* a chunk that is over is left for the next chunk, or for the merge
    /\ ChunkOver
          => \/ tpc = "attempt" /\ attempt = 0 /\ Counties[ci] = trace[1].county
                 /\ ki = trace[1].chunk + 1
             \/ tpc = "attempt" /\ attempt = 0 /\ Counties[ci] # trace[1].county /\ ki = 1
             \/ tpc \in {"merge", "county", "concat", "returned", "raised"}

C1_Step ==
    \* after a failed attempt nothing happens before the sleep of 2 seconds
    /\ (trace # <<>> /\ Last(trace).ev = "GET")
          => /\ trace' = Append(trace, [Last(trace) EXCEPT !.ev = "SLEEP", !.secs = 2])
             /\ df_chunks' = df_chunks /\ rows' = rows
    \* a chunk result is appended by a successful attempt only, and only one
    /\ (df_chunks' # df_chunks /\ df_chunks' # <<>>)
          => /\ Len(df_chunks') = Len(df_chunks) + 1 \/ Len(df_chunks') = 1
             /\ SubSeq(df_chunks', 1, Len(df_chunks') - 1) \in {df_chunks, <<>>}
             /\ Last(trace').ev = "APPEND" /\ trace' # trace
    /\ (trace' # trace /\ Last(trace').ev = "APPEND")
          => df_chunks' = Append(df_chunks, Last(df_chunks'))
    \* a chunk that is over is never attempted again
    /\ (ChunkOver /\ trace' # trace)
          => /\ Len(trace') <= 2
             /\ <<trace'[1].county, trace'[1].chunk>> # <<trace[1].county, trace[1].chunk>>

\* C1: per (county, chunk) at most 5 GETs are issued; a failed attempt is
\* followed by a sleep of 2 seconds before anything else; the first
\* successful attempt appends exactly one chunk result and ends the attempts
\* at that chunk; after 5 failed attempts the fetcher moves on.
C1_RetryLoop == []C1_TraceShape /\ [][C1_Step]_vars

\* A chunk given up after five failed attempts, the next chunk then fetched
\* at its second attempt.
C1_Witness ==
    /\ Len(trace) = 4 /\ trace[1].chunk = 2 /\ Last(trace).ev = "APPEND"
    /\ Len(df_chunks) = 1
    /\ tpc = "merge"

\* C2: the merge step never raises an unhandled index error when the
\* attempts at the chunks of a county have all failed.
C2_NoIndexError == ~(tpc = "raised" /\ terr = "IndexError")

\* C3: every county merged into the rows fetch_table returns carries the
\* columns of all the variables of the table.
C3_AllChunksMerged ==
    tpc = "returned" => \A i \in 1..Len(rows) : Range(vars_all) \subseteq Range(rows[i].cols)

(***************************************************************************)
(* fetch_blockgroup_geometries: the pagination (C4, C5).                   *)
(***************************************************************************)
\* C4: the first query of a county has offset 0, every query asks for 2000
\* features, each later query starts where the features received so far end,
\* and a page of fewer than 2000 features is the last query of its county.
C4_Pagination ==
    /\ queries # <<>> => queries[1].resultOffset = 0
    /\ \A i \in 1..Len(queries) :
          /\ queries[i].resultRecordCount = 2000
          /\ queries[i].county = queries[1].county
          /\ queries[i].resultOffset = RunTotal([j \in 1..(i - 1) |-> <<j, queries[j].got>>])
          /\ i < Len(queries) => queries[i].outcome = "collection" /\ queries[i].got >= 2000
    /\ (queries # <<>> /\ Last(queries).got < 2000)
          => gpc # "query" \/ Counties[gci] # queries[1].county
    /\ (gpc = "query" /\ (queries = <<>> \/ Counties[gci] # queries[1].county)) => offset = 0
    /\ (gpc = "query" /\ queries # <<>> /\ Counties[gci] = queries[1].county)
          => offset = Last(queries).resultOffset + Last(queries).got

\* Three queries of one county: after pages of 2001 and 2000 features the
\* third one starts at 4001 and returns a short page.
C4_Witness ==
    /\ Len(queries) = 3
    /\ queries[1].got = 2001 /\ queries[2].got = 2000
    /\ queries[3].resultOffset = 4001 /\ queries[3].got = 1999

Failed(q) == q.outcome # "collection"

\* C5: a failed page ends the pagination of its county, the next county
\* starts at offset 0, and no failure makes the run fail.
C5_FailureIsolated ==
    /\ gpc # "raised"
    /\ (queries # <<>> /\ Failed(Last(queries)))
          => /\ offset = 0
             /\ \/ gpc = "query" /\ Counties[gci] # queries[1].county
                \/ gpc \in {"frame", "returned"}

(***************************************************************************)
(* The identifier repair of the loop body (C6 - C8).                       *)
(***************************************************************************)
AllDigits(s) == \A i \in 1..Len(s) : IsDigit(s[i])

Handled == fpc = "handled"

\* The GEOID the feature supplies, before str().strip().
GeoidProperty == Or(feat.properties.geoid, Or(feat.properties.geoid10, feat.properties.bg_geoid))

\* C6: every record appended has a state of 2 digits, a county of 3, a tract
\* of 6 and a block group of 1; a feature with a component that is missing,
\* of the wrong width or not all digits is dropped.
C6_ComponentsAreDigits ==
    \A i \in 1..Len(frecs) :
        /\ Len(frecs[i].state) = 2 /\ AllDigits(frecs[i].state)
        /\ Len(frecs[i].county) = 3 /\ AllDigits(frecs[i].county)
        /\ Len(frecs[i].tract) = 6 /\ AllDigits(frecs[i].tract)
        /\ Len(frecs[i].block_group) = 1 /\ AllDigits(frecs[i].block_group)

\* The feature supplies a GEOID of fewer than 12 digits.
ShortGeoid == Strip(GeoidProperty) # <<>> /\ Len(digits(GeoidProperty)) < 12

\* The components the feature's own properties give: stripped, and when they
\* hold a digit, their digits padded to 2, 3 and 6 or cut to the first one.
OwnComponents ==
    LET Own(v, w) ==
            LET d == digits(Strip(v))
            IN  IF d = <<>> THEN Strip(v)
                ELSE IF w = 1 THEN <<d[1]>>
                ELSE IF Len(d) < w THEN Repeat("0", w - Len(d)) \o d ELSE d
    IN  [st |-> Own(feat.properties.state, 2),
         co |-> Own(feat.properties.county, 3),
         tr |-> Own(feat.properties.tract, 6),
         bg |-> Own(feat.properties.block_group, 1)]

OwnComplete ==
    /\ Len(OwnComponents.st) = 2 /\ Len(OwnComponents.co) = 3
    /\ Len(OwnComponents.tr) = 6 /\ Len(OwnComponents.bg) = 1

GeoidAlone ==
    /\ Len(GeoidProperty) = 12 /\ AllDigits(GeoidProperty)
    /\ feat.properties.state = <<>> /\ feat.properties.county = <<>>
    /\ feat.properties.tract = <<>> /\ feat.properties.block_group = <<>>
    /\ feat.geometry = UnitSquare

\* C8: a polygon feature that supplies only GEOID = st+co+tr+bg yields one
\* record whose components are (st, co, tr, bg).
C8_RoundTrip ==
    (Handled /\ GeoidAlone) =>
        /\ Len(frecs) = 1
        /\ Len(frecs[1].state) = 2 /\ Len(frecs[1].county) = 3
        /\ Len(frecs[1].tract) = 6 /\ Len(frecs[1].block_group) = 1
        /\ frecs[1].state \o frecs[1].county \o frecs[1].tract \o frecs[1].block_group
               = GeoidProperty

\* The components of GEOID 010110010101 are 01, 011, 001010 and 1.
C8_Witness ==
    /\ Handled
    /\ GeoidProperty = <<"0","1","0","1","1","0","0","1","0","1","0","1">>
    /\ GeoidAlone
    /\ Len(frecs) = 1
    /\ frecs[1].state = <<"0","1">> /\ frecs[1].county = <<"0","1","1">>
    /\ frecs[1].tract = <<"0","0","1","0","1","0">> /\ frecs[1].block_group = <<"1">>

(***************************************************************************)
(* geojson_to_wkt (C9, C10).  A WKT text is read back by ParseWkt: the     *)
(* keyword before the first parenthesis, then the nested groups, split at  *)
(* the ", " outside any inner parenthesis, down to the integers of each    *)
(* vertex.                                                                 *)
(***************************************************************************)
\* The parts of s between the ", " at parenthesis depth 0.
RECURSIVE SplitTop(_, _, _, _, _)
SplitTop(s, i, depth, cur, acc) ==
    IF i > Len(s) THEN Append(acc, cur)
    ELSE IF s[i] = "," /\ depth = 0 /\ i < Len(s) /\ s[i + 1] = " "
    THEN SplitTop(s, i + 2, 0, <<>>, Append(acc, cur))
    ELSE SplitTop(s, i + 1,
                  depth + (IF s[i] = "(" THEN 1 ELSE IF s[i] = ")" THEN 0 - 1 ELSE 0),
                  Append(cur, s[i]), acc)

Parts(s) == SplitTop(s, 1, 0, <<>>, <<>>)

\* s is "(...)": its text between the parentheses.
Grouped(s) == Len(s) >= 2 /\ s[1] = "(" /\ s[Len(s)] = ")"

Inner(s) == SubSeq(s, 2, Len(s) - 1)

DigitValue(ch) == CHOOSE d \in 0..9 : Digit(d) = ch

RECURSIVE ParseNat(_)
ParseNat(s) == IF s = <<>> THEN 0 ELSE 10 * ParseNat(SubSeq(s, 1, Len(s) - 1)) + DigitValue(Last(s))

IsNumber(s) ==
    LET d == IF s # <<>> /\ Head(s) = "-" THEN Tail(s) ELSE s
    IN  d # <<>> /\ AllDigits(d)

ParseInt(s) == IF Head(s) = "-" THEN 0 - ParseNat(Tail(s)) ELSE ParseNat(s)

\* "x y": the two numbers around the single space.
IsVertex(s) ==
    \E i \in 1..Len(s) :
        /\ s[i] = " "
        /\ IsNumber(SubSeq(s, 1, i - 1)) /\ IsNumber(SubSeq(s, i + 1, Len(s)))

ParseVertex(s) ==
    LET i == CHOOSE k \in 1..Len(s) : s[k] = " "
    IN  <<ParseInt(SubSeq(s, 1, i - 1)), ParseInt(SubSeq(s, i + 1, Len(s)))>>

\* "(x y, x y, ...)" with at least one vertex
IsRing(s) ==
    Grouped(s) /\ LET p == Parts(Inner(s)) IN \A k \in 1..Len(p) : IsVertex(p[k])

ParseRing(s) == LET p == Parts(Inner(s)) IN [k \in 1..Len(p) |-> ParseVertex(p[k])]

\* "((...), (...), ...)" with at least one ring
IsPolygon(s) ==
    Grouped(s) /\ LET p == Parts(Inner(s)) IN \A k \in 1..Len(p) : IsRing(p[k])

ParsePolygon(s) == LET p == Parts(Inner(s)) IN [k \in 1..Len(p) |-> ParseRing(p[k])]

\* "(((...)), ((...)), ...)" with at least one polygon
IsMulti(s) ==
    Grouped(s) /\ LET p == Parts(Inner(s)) IN \A k \in 1..Len(p) : IsPolygon(p[k])

ParseMulti(s) == LET p == Parts(Inner(s)) IN [k \in 1..Len(p) |-> ParsePolygon(p[k])]

PolygonWord == <<"P","O","L","Y","G","O","N">>
MultiWord   == <<"M","U","L","T","I">> \o PolygonWord

\* wkt is POLYGON followed by a polygon text, or MULTIPOLYGON followed by a
\* text of polygons: every ring has a vertex, every polygon a ring.
IsWkt(wkt) ==
    \/ StartsWith(wkt, PolygonWord) /\ IsPolygon(SubSeq(wkt, 8, Len(wkt)))
    \/ StartsWith(wkt, MultiWord) /\ IsMulti(SubSeq(wkt, 13, Len(wkt)))

\* The geometry a WKT text denotes: its type and its coordinates.
ParseWkt(wkt) ==
    IF StartsWith(wkt, PolygonWord)
    THEN [type |-> "Polygon", coordinates |-> ParsePolygon(SubSeq(wkt, 8, Len(wkt)))]
    ELSE [type |-> "MultiPolygon", coordinates |-> ParseMulti(SubSeq(wkt, 13, Len(wkt)))]

\* The vertices of a ring that have two coordinates, cut to those two.
Vertices(ring) ==
    LET ok == SelectSeq(ring, LAMBDA pt : Len(pt) >= 2)
    IN  [i \in 1..Len(ok) |-> <<ok[i][1], ok[i][2]>>]

\* The rings of a polygon that have such a vertex.
Rings(poly) ==
    LET ok == SelectSeq(poly, LAMBDA ring : Vertices(ring) # <<>>)
    IN  [i \in 1..Len(ok) |-> Vertices(ok[i])]

\* The polygons of a MultiPolygon that have such a ring.
Polygons(coords) ==
    LET ok == SelectSeq(coords, LAMBDA poly : Rings(poly) # <<>>)
    IN  [i \in 1..Len(ok) |-> Rings(ok[i])]

\* What a polygonal geometry holds of vertices, in its own order.
Content(geom) ==
    IF geom.type = "Polygon" THEN Rings(geom.coordinates) ELSE Polygons(geom.coordinates)

Polygonal(geom) == geom.present /\ geom.type \in {"Polygon", "MultiPolygon"}

Converted == wpc = "converted"

\* C9: the WKT of a Polygon or MultiPolygon holds its polygons, rings and
\* vertices in the order of the input, each vertex as "x y" from its first
\* two coordinates, without the rings that have no valid vertex; the ring
\* [[0,0],[0,1],[1,1],[0,0]] gives POLYGON((0 0, 0 1, 1 1, 0 0)).
C9_OrderPreserved ==
    (Converted /\ Polygonal(feat.geometry) /\ Content(feat.geometry) # <<>>) =>
        /\ IsWkt(wres)
        /\ ParseWkt(wres) = [type |-> feat.geometry.type, coordinates |-> Content(feat.geometry)]
        /\ feat.geometry = UnitSquare =>
              wres = PolygonWord \o <<"(","(", "0"," ","0", ",", " ", "0"," ","1", ",", " ",
                                      "1"," ","1", ",", " ", "0"," ","0", ")",")">>

\* A MultiPolygon of two polygons: the ring of the first has a vertex with a
\* third coordinate and a point too short, the second one ring of one vertex.
C9_Witness ==
    /\ Converted
    /\ feat.geometry = Geom("MultiPolygon",
                            << << << <<2, 0, 5>>, <<7>> >> >>, << << <<-1, 10>> >> >> >>)
    /\ wres = MultiWord \o <<"(", "(","(","2"," ","0",")",")", ",", " ",
                             "(","(","-","1"," ","1","0",")",")", ")">>

\* The geometry is missing, not polygonal, or has no ring with a valid vertex.
NoPolygon(geom) == ~Polygonal(geom) \/ Content(geom) = <<>>

\* C10: geojson_to_wkt returns None, never an empty text nor a text with an
\* empty ring or polygon, for a geometry that is missing, of another type or
\* has only empty rings; the loop body drops such a feature, and every
\* record carries a WKT with at least one ring of at least one vertex.
C10_NoEmptyGeometry ==
    /\ (Converted /\ NoPolygon(feat.geometry)) => wres = None
    /\ Converted => (wres = None \/ IsWkt(wres))
    /\ (Handled /\ NoPolygon(feat.geometry)) => frecs = <<>>
    /\ \A i \in 1..Len(frecs) : IsWkt(frecs[i].wkt)

\* A Polygon whose two rings hold no valid vertex is converted to None and
\* its feature, with valid identifiers, is dropped.
C10_Witness ==
    /\ Handled
    /\ feat.geometry = Geom("Polygon", << <<>>, << <<7>> >> >>)
    /\ Validated(Repaired(feat.properties))
    /\ wres = None
    /\ frecs = <<>>

(***************************************************************************)
(* chunk (C11).                                                            *)
(***************************************************************************)
CeilDiv(a, b) == (a + b - 1) \div b

\* C11: chunk yields ceil(L/n) chunks, each of n elements except a last one
\* of 1 to n elements, whose concatenation in order is the list, so every
\* element is in exactly one chunk; the empty list yields no chunk.
C11_ChunkPartition ==
    cpc = "done" =>
        /\ Len(cout) = CeilDiv(Len(clst), cn)
        /\ \A i \in 1..Len(cout) :
              IF i < Len(cout) THEN Len(cout[i]) = cn ELSE Len(cout[i]) \in 1..cn
        /\ Concat(cout) = clst
        /\ \A x \in Range(clst) :
              Cardinality({i \in 1..Len(cout) : x \in Range(cout[i])}) = 1
        /\ (clst = <<>>) => (cout = <<>>)

\* 45 elements in chunks of 20: three chunks of 20, 20 and 5 elements.
C11_Witness ==
    /\ cpc = "done"
    /\ Len(clst) = 45 /\ cn = 20
    /\ [i \in 1..Len(cout) |-> Len(cout[i])] = <<20, 20, 5>>

(***************************************************************************)
(* The main block: the flag and the order of the stages (C12).             *)
(***************************************************************************)
\* The steps that issue a request.
MetaRequest == tpc = "get_variables" /\ tpc' # tpc
DataRequest == tpc = "attempt" /\ trace' # trace
GeomQuery   == gpc = "query" /\ queries' # queries

\* The calls of stage 1, and of stages 2 and 3, of a complete run.
TableStage ==
    Concat([t \in 1..NumTables |->
               <<Call("fetch_table", tables[t].label), Call("save_csv", TableCsv(t))>>])

GeomStage ==
    << Call("fetch_blockgroup_geometries", ""), Call("save_csv", GeomCsv),
       Call("to_postgis_instructions", "public") >>

IsPrefix(s, t) == Len(s) <= Len(t) /\ SubSeq(t, 1, Len(s)) = s

C12_Log ==
    \* with the flag: no call of fetch_table, no table CSV, only stages 2 and 3
    /\ geom_only => /\ IsPrefix(mlog, GeomStage)
                    /\ tpc = "idle" /\ trace = <<>>
    \* without it: stage 1 for every table in order, then stages 2 and 3
    /\ ~geom_only => IsPrefix(mlog, TableStage \o GeomStage)
    \* the geometry fetch is the first call after the tables, and a run that
    \* ends normally has saved the geometry CSV and then emitted the SQL
    /\ mpc = "geometries" => Last(mlog) = GeomStage[1]
    /\ mpc = "instructions" => Last(mlog) = GeomStage[2]
    /\ mpc = "done" => mlog = (IF geom_only THEN <<>> ELSE TableStage) \o GeomStage
    \* the SQL is emitted only after the geometry CSV was saved
    /\ \A i \in 1..Len(mlog) :
          mlog[i].call = "to_postgis_instructions"
              => i > 1 /\ mlog[i - 1] = Call("save_csv", GeomCsv)

C12_Step ==
    \* with the flag no ACS request is issued, and the run starts with stage 2
    /\ geom_only => ~MetaRequest /\ ~DataRequest
    /\ (geom_only /\ mpc = "start") => mpc' = "geometries" /\ gpc' = "query"
    \* a table is saved when fetch_table has returned it, stage 2 is saved
    \* when the geometry fetch has returned, and the SQL follows
    /\ (mpc = "tables" /\ tpc = "returned")
          => Call("save_csv", TableCsv(table)) \in Range(mlog') \ Range(mlog)
    /\ (mpc = "geometries" /\ gpc = "returned")
          => mlog' = Append(mlog, GeomStage[2]) /\ mpc' = "instructions"
    /\ mpc = "instructions" => mlog' = Append(mlog, GeomStage[3]) /\ mpc' = "done"
    \* without the flag every table is fetched and saved before a geometry query
    /\ (GeomQuery /\ ~geom_only) => mlog = Append(TableStage, GeomStage[1])
    \* a request of fetch_table belongs to the table called last, not yet saved
    /\ (MetaRequest \/ DataRequest)
          => /\ mpc = "tables"
             /\ Last(mlog) = Call("fetch_table", tables[table].label)
    /\ GeomQuery => mpc = "geometries"

\* C12: with the geometry-only flag no ACS metadata or data request is issued
\* and no table CSV is written, while the geometry fetch, the geometry CSV
\* and the SQL instructions happen; without it every table is fetched and
\* saved before the first geometry query, and the SQL instructions come only
\* after the geometry CSV was saved.
C12_StageOrder == []C12_Log /\ [][C12_Step]_vars

\* A geometry-only run that ended normally after at least one query.
C12_Witness ==
    /\ geom_only
    /\ mpc = "done"
    /\ mlog = GeomStage
    /\ queries # <<>>
    /\ tpc = "idle"

(***************************************************************************)
(* get_variables (C13).                                                    *)
(***************************************************************************)
HasPrefix(v, code) == Len(v) >= Len(code) /\ \A i \in 1..Len(code) : v[i] = code[i]

\* The positions in keys of the codes of the table.
Listed(keys, code) == {i \in 1..Len(keys) : HasPrefix(keys[i], code)}

\* The position of the key v in keys; the keys of a JSON object are distinct.
Position(keys, v) == CHOOSE i \in 1..Len(keys) : keys[i] = v

MetaFailures == {"exception", "notjson", "novariables"}

C13_State ==
    \* the metadata request is the first thing fetch_table does
    /\ tpc = "get_variables" => meta = NoMeta /\ trace = <<>>
    /\ tpc \notin {"idle", "get_variables"} => meta # NoMeta
    \* the codes of the table, all of them, in the order of the payload
    /\ meta.kind = "ok"
          => LET S == Listed(meta.keys, tables[table].code)
             IN  /\ Len(vars_all) = Cardinality(S)
                 /\ \A j \in 1..Len(vars_all) :
                       /\ \E i \in S : meta.keys[i] = vars_all[j]
                       /\ j > 1 => Position(meta.keys, vars_all[j - 1])
                                       < Position(meta.keys, vars_all[j])
    \* a failed request leaves fetch_table with no data request issued
    /\ meta.kind \in MetaFailures
          => /\ tpc = "raised"
             /\ terr \in {"RequestException", "JSONDecodeError", "KeyError"}
             /\ vars_all = <<>> /\ trace = <<>> /\ df_chunks = <<>> /\ rows = <<>>

C13_Step ==
    \* one request, never repeated
    /\ meta # NoMeta => meta' = meta
    /\ tpc = "get_variables" => meta' # NoMeta /\ tpc' \in {"county", "raised"}
    \* data is requested only after the metadata request succeeded
    /\ (tpc = "attempt" /\ trace' # trace) => meta.kind = "ok"

\* C13: get_variables issues one metadata request per table and never
\* retries it; it returns the keys that start with the table code, in the
\* order of the payload; a request that raises, a body that is not JSON or a
\* payload without "variables" makes fetch_table raise before any data
\* request of the table.
C13_GetVariables == []C13_State /\ [][C13_Step]_vars

\* The payload lists the last code first among foreign keys; the codes of
\* the table come back in that order and data was requested for them.
C13_Witness ==
    /\ meta.kind = "ok"
    /\ Len(meta.keys) = NumVars + 3
    /\ Len(vars_all) = NumVars
    /\ vars_all[1] = VarCode(tables[table].code, NumVars)
    /\ vars_all[2] = VarCode(tables[table].code, 1)
    /\ tpc = "returned"

(***************************************************************************)
(* fetch_blockgroup_geometries: termination (C14).  The server of the      *)
(* model holds finitely many features per county: past MaxPages full pages *)
(* it has fewer than a full page left.                                     *)
(***************************************************************************)
\* Every response so far was handled by the loop: it was no JSON value other
\* than an object (see C5).
ResponsesHandled == \A i \in 1..Len(queries) : queries[i].outcome # "notobject"

C14_State ==
    \* the counties are visited in the order of the list, all before the frame
    /\ gci \in 1..Len(Counties)
    /\ queries # <<>> => \E c \in 1..gci : queries[1].county = Counties[c]
    /\ gpc \in {"frame", "returned"}
          => gci = Len(Counties) /\ queries # <<>> /\ queries[1].county = Counties[gci]
    \* the offset stays within what the server holds
    /\ offset <= MaxPages * PageSize + PageSize + 1

C14_Step ==
    \* the loop goes on with the same county only after a page of 2000 or more
    /\ (gpc = "query" /\ gpc' = "query" /\ gci' = gci)
          => /\ Last(queries').got >= 2000
             /\ offset' > offset
    \* a county is left for the next one of the list, after at least one query
    /\ gci' # gci
          => /\ gci' = gci + 1
             /\ Last(queries').county = Counties[gci]
             /\ offset' = 0
    \* the function returns after the last county only
    /\ (gpc = "query" /\ gpc' = "frame") => Last(queries').county = Last(Counties)

\* C14: with a server that holds finitely many features per county the
\* pagination loop of every county ends, the counties are visited in the
\* order of the list, and the function returns; the loop goes on only after
\* a page of at least 2000 features.
C14_Terminates ==
    /\ []C14_State
    /\ [][C14_Step]_vars
    /\ []ResponsesHandled => <>(gpc = "returned")

\* The function has returned after a county whose loop took three queries.
C14_Witness ==
    /\ gpc = "returned"
    /\ gci = Len(Counties)
    /\ Len(queries) = 3
    /\ queries[3].resultOffset >= 4000

(***************************************************************************)
(* The GEOID of a record (C15).                                            *)
(***************************************************************************)
KeyText(rec) == rec.state \o rec.county \o rec.tract \o rec.block_group

\* C15: every record has a GEOID of 12 characters that is the concatenation
\* of its own state, county, tract and block group, whether the GEOID was
\* synthesized or supplied by the feature.
C15_GeoidIsConcatenation ==
    \A i \in 1..Len(frecs) :
        Len(frecs[i].geoid) = 12 /\ frecs[i].geoid = KeyText(frecs[i])

(***************************************************************************)
(* The identifier repair: own components before GEOID slices (C16).        *)
(***************************************************************************)
\* The digits of the GEOID the feature supplies.
GeoidDigits == digits(Strip(GeoidProperty))

\* The slices state=[0:2], county=[2:5], tract=[5:11], block group=[11:12] of
\* a GEOID of at least 12 digits.
GeoidSlices ==
    [st |-> <<GeoidDigits[1], GeoidDigits[2]>>,
     co |-> <<GeoidDigits[3], GeoidDigits[4], GeoidDigits[5]>>,
     tr |-> [i \in 1..6 |-> GeoidDigits[5 + i]],
     bg |-> <<GeoidDigits[12]>>]

\* An own component is kept; a missing one is filled from a GEOID of at least
\* 12 digits and stays missing otherwise.
Filled(own, slice) ==
    IF own # <<>> THEN own
    ELSE IF Len(GeoidDigits) >= 12 THEN slice
    ELSE <<>>

ExpectedComponents ==
    [st |-> Filled(OwnComponents.st, GeoidSlices.st),
     co |-> Filled(OwnComponents.co, GeoidSlices.co),
     tr |-> Filled(OwnComponents.tr, GeoidSlices.tr),
     bg |-> Filled(OwnComponents.bg, GeoidSlices.bg)]

ExpectedValid ==
    /\ Len(ExpectedComponents.st) = 2 /\ Len(ExpectedComponents.co) = 3
    /\ Len(ExpectedComponents.tr) = 6 /\ Len(ExpectedComponents.bg) = 1

\* C16: a component the feature's own property gives with a digit is kept as
\* normalized (padded to 2, 3, 6 digits, block group cut to its first digit)
\* and never replaced by a slice of the GEOID; only a missing component is
\* filled, only from a GEOID of at least 12 digits, with the slice [0:2],
\* [2:5], [5:11] or [11:12] of its digits; the feature is kept exactly when
\* the components so obtained have the widths 2, 3, 6 and 1.
C16_OwnComponentsKept ==
    (Handled /\ GeometryKept(feat.geometry)) =>
        IF ExpectedValid
        THEN /\ Len(frecs) = 1
             /\ frecs[1].state = ExpectedComponents.st
             /\ frecs[1].county = ExpectedComponents.co
             /\ frecs[1].tract = ExpectedComponents.tr
             /\ frecs[1].block_group = ExpectedComponents.bg
        ELSE frecs = <<>>

\* GEOID 130210001002 with COUNTY 121 and BLOCK_GROUP 1 of the feature's
\* own: the record is 13, 121, 000100, 1.
C16_Witness ==
    /\ Handled
    /\ GeoidProperty = <<"1","3","0","2","1","0","0","0","1","0","0","2">>
    /\ feat.properties.state = <<>> /\ feat.properties.tract = <<>>
    /\ feat.properties.county = <<"1","2","1">>
    /\ feat.properties.block_group = <<"1">>
    /\ Len(frecs) = 1
    /\ frecs[1].state = <<"1","3">> /\ frecs[1].county = <<"1","2","1">>
    /\ frecs[1].tract = <<"0","0","0","1","0","0">> /\ frecs[1].block_group = <<"1">>

(***************************************************************************)
(* fetch_table: the merge of the chunks of a county (C17).                 *)
(***************************************************************************)
\* The cell of a row of the frame df in the column named c.
Cell(df, row, c) == row[CHOOSE i \in 1..Len(df.cols) : df.cols[i] = c]

\* (state, county, tract, block group) of a row
GeoKey(df, row) ==
    <<Cell(df, row, StateCol), Cell(df, row, CountyCol), Cell(df, row, TractCol),
      Cell(df, row, BgCol)>>

\* The variable columns of a chunk: all but NAME and the key.
VarCols(df) == Range(df.cols) \ ({NAME} \cup Range(KeyCols))

\* The county of the frame appended last to rows was merged from df_chunks.
JustMerged == tpc \in {"county", "concat"} /\ rows # <<>>

UniqueKeys(df) ==
    \A i, j \in 1..Len(df.rows) :
        GeoKey(df, df.rows[i]) = GeoKey(df, df.rows[j]) => i = j

\* m is the left join of the chunks onto the first of them.
LeftJoined(chunks, m) ==
    LET first == chunks[1]
    IN  /\ Len(m.rows) = Len(first.rows)
        \* every column once: NAME and the key of the first chunk, and the
        \* variable columns of all the chunks
        /\ Len(m.cols) = Cardinality(Range(m.cols))
        /\ Range(m.cols) = Range(first.cols) \cup UNION {VarCols(chunks[k]) : k \in 1..Len(chunks)}
        \* the rows of the first chunk, in their order, NAME included
        /\ \A r \in 1..Len(m.rows) : \A c \in Range(first.cols) :
              Cell(m, m.rows[r], c) = Cell(first, first.rows[r], c)
        \* the variables of a later chunk: those of its row with the same key,
        \* empty when it has none
        /\ \A k \in 2..Len(chunks) : \A r \in 1..Len(m.rows) : \A v \in VarCols(chunks[k]) :
              LET same == {x \in 1..Len(chunks[k].rows) :
                              GeoKey(chunks[k], chunks[k].rows[x]) = GeoKey(first, first.rows[r])}
              IN  IF same = {}
                  THEN Cell(m, m.rows[r], v) = NaN
                  ELSE \A x \in same : Cell(m, m.rows[r], v) = Cell(chunks[k], chunks[k].rows[x], v)

\* C17: the merged rows of a county with a fetched chunk are the left join
\* onto the first fetched chunk: one row per row of that chunk, matched to the
\* later chunks on (state, county, tract, block group) only, the variables of
\* a later chunk empty where it lacks the key, no row for a key only a later
\* chunk has, and NAME once, from the first chunk.
C17_LeftJoin ==
    (JustMerged /\ \A k \in 1..Len(df_chunks) : UniqueKeys(df_chunks[k]))
        => /\ df_chunks # <<>>
           /\ LeftJoined(df_chunks, Last(rows))

\* The first chunk has both block groups, the second only the second one:
\* the first row has no value for the second chunk's variable.
C17_Witness ==
    /\ JustMerged
    /\ Len(df_chunks) = 2
    /\ Len(df_chunks[1].rows) = 2 /\ Len(df_chunks[2].rows) = 1
    /\ Cell(df_chunks[2], df_chunks[2].rows[1], BgCol) = "2"
    /\ Len(Last(rows).rows) = 2
    /\ Last(Last(rows).rows[1]) = NaN
    /\ Last(Last(rows).rows[2]) = "est2"


\* ---------------------------------------------------------------------------
\* C18  records of fetch_blockgroup_geometries is append-only
\* ---------------------------------------------------------------------------

\* A feature the loop over a page drops: it appends no record.
Dropped(f) == FeatureRecords(f) = <<>>

\* The runs of a page whose feature is kept, in the order of the page.
KeptOf(feats) == SelectSeq(feats, LAMBDA r : ~Dropped(r[1]))

\* What a step has put behind the records that were there before it.
Added == SubSeq(records', Len(records) + 1, Len(records'))

C18_State ==
    /\ total_kept = RunTotal(records)
    /\ gpc = "returned" => gdf.rows = records

C18_Step ==
    /\ IsPrefix(records, records')
    /\ total_kept' = total_kept + RunTotal(Added)
    /\ (gci' = gci /\ gpc' = "query")
          => page_total' = page_total + RunTotal(Added)
    /\ queries' # queries =>
          LET q    == queries'[Len(queries')]
              kept == KeptOf(q.features)
          IN  /\ Failed(q) => records' = records /\ total_kept' = total_kept
              /\ Len(Added) = Len(kept)
              /\ \A i \in 1..Len(kept) :
                    /\ Added[i][1] = FeatureRecords(kept[i][1])[1]
                    /\ Added[i][2] = kept[i][2]
              /\ (\A i \in 1..Len(q.features) : Dropped(q.features[i][1]))
                    => /\ records' = records
                       /\ total_kept' = total_kept
                       /\ gci' = gci => page_total' \in {page_total, 0}
    /\ gdf' # gdf => records' = records /\ gdf'.rows = records

\* C18: every step of fetch_blockgroup_geometries leaves the records kept so
\* far in place and unmodified at the front of the collection, a failed page
\* or county included; total_kept and page_total grow by the number of records
\* the step appended, so a dropped feature changes neither the collection nor
\* the counters; the returned frame has the records as its rows.
C18_AppendOnly == []C18_State /\ [][C18_Step]_vars

\* Both counties kept records, and the last page of the last county held a
\* single feature, which was dropped: the earlier records are all returned.
C18_Witness ==
    /\ gpc = "returned"
    /\ gci = Len(Counties)
    /\ Len(queries) = 2
    /\ queries[2].got = 1
    /\ Dropped(queries[2].features[1][1])
    /\ Len(records) = 2
    /\ total_kept = (PageSize - 2) + PageSize
    /\ gdf.rows = records

====
